---- MODULE Spec2Model ----
(***************************************************************************)
(* Model of src/pauli_string.py: PauliString (an n-qubit Pauli operator    *)
(* held as two boolean arrays z_bits, x_bits, index 1 here = qubit 0) and  *)
(* LinearCombinaisonPauliString (LCPS: an array of complex coefficients    *)
(* and an array of PauliStrings).                                          *)
(*                                                                         *)
(* Every method is a pure function of its receiver and arguments, so each  *)
(* method is an operator, and each action is one call: it reads the        *)
(* receiver `self`, the operands `other` and `arg`, and writes what the    *)
(* call returned or raised into `ret`.  SpecHeap runs the LCPS methods on  *)
(* objects and arrays held in `heap`, where self, other and ret.val are    *)
(* addresses; SpecChain calls the methods one after the other, each on the *)
(* LCPS the last successful call returned, `calls` counting the calls.     *)
(* The other specifications leave heap and calls alone.                    *)
(*                                                                         *)
(* Complex numbers are Gaussian integers <<re, im>>; arithmetic on them is *)
(* exact, so floating-point rounding is outside the model.  numpy is the   *)
(* numpy the file was written for, in which np.complex and np.bool are the *)
(* builtin types.                                                          *)
(***************************************************************************)
EXTENDS Integers, Sequences, FiniteSets, TLC

VARIABLES self, other, arg, op, ret, heap, calls

vars == <<self, other, arg, op, ret, heap, calls>>

\* ------------------------------------------------------------------ bounds

\* Largest qubit count of the PauliStrings of SpecPS.
NQubits == 2

\* Largest qubit count of the generated LCPS receivers of SpecLC.
LcQubits == 1

\* Largest number of terms of a generated LCPS.
MaxTerms == 2

\* The number of calls in a chain of calls, and the number of terms an LCPS
\* returned in a chain has at most.
MaxCalls == 4

MaxChainTerms == 3

\* ------------------------------------------------------- outcome of a call

\* A call that returned v.
Return(v) == [exc |-> "None", val |-> v]

\* A call that raised the exception e (nothing is returned).
Raise(e) == [exc |-> e, val |-> <<>>]

\* No argument.
Nil == <<>>

\* No call made yet.
NoCall == [exc |-> "None", val |-> Nil]

\* ------------------------------------------------------- complex numbers

CAdd(a, b) == <<a[1] + b[1], a[2] + b[2]>>

CMul(a, b) == <<a[1] * b[1] - a[2] * b[2], a[1] * b[2] + a[2] * b[1]>>

\* abs(c)**2
CNorm2(c) == c[1] * c[1] + c[2] * c[2]

RECURSIVE CSum(_)
\* Python's sum(seq): 0 + seq[0] + seq[1] + ...
CSum(s) == IF s = <<>> THEN <<0, 0>> ELSE CAdd(CSum(SubSeq(s, 1, Len(s) - 1)), s[Len(s)])

\* (-1j)**w for w in 0..3
PhaseOf(w) ==
  CASE w = 0 -> <<1, 0>>
    [] w = 1 -> <<0, -1>>
    [] w = 2 -> <<-1, 0>>
    [] w = 3 -> <<0, 1>>

\* ------------------------------------------------------------ PauliString

\* np.sum of a boolean array
NpSum(bits) == Cardinality({i \in DOMAIN bits : bits[i]})

\* The object PauliString.__init__ builds (len(z_bits) == len(x_bits)).
PauliString(z, x) == [z_bits |-> z, x_bits |-> x]

\* PauliString.__len__
PS_len(p) == Len(p.z_bits)

\* All PauliStrings on n qubits.
PauliStrings(n) == {PauliString(z, x) : z \in [1..n -> BOOLEAN], x \in [1..n -> BOOLEAN]}

\* pauli_labels[z + 2*x] with pauli_labels = 'IZXY'
LabelOf(z, x) ==
  CASE ~z /\ ~x -> "I"
    [] z /\ ~x -> "Z"
    [] ~z /\ x -> "X"
    [] z /\ x -> "Y"

\* reversed(s)
Reversed(s) == [i \in 1..Len(s) |-> s[Len(s) + 1 - i]]

\* PauliString.__str__ without reversed(): the labels, qubit 0 first.
PS_str_qubit_0_first(p) == [i \in 1..PS_len(p) |-> LabelOf(p.z_bits[i], p.x_bits[i])]

\* PauliString.__str__: the labels, most significant qubit first.
PS_str(p) == Reversed([i \in 1..PS_len(p) |-> LabelOf(p.z_bits[i], p.x_bits[i])])

\* The characters of a str are one-character strings; the character U+0131
\* (LATIN SMALL LETTER DOTLESS I), which is not ASCII, is written DotlessI.
DotlessI == "U+0131"

LowerCase ==
  <<"a", "b", "c", "d", "e", "f", "g", "h", "i", "j", "k", "l", "m",
    "n", "o", "p", "q", "r", "s", "t", "u", "v", "w", "x", "y", "z">>

UpperCase ==
  <<"A", "B", "C", "D", "E", "F", "G", "H", "I", "J", "K", "L", "M",
    "N", "O", "P", "Q", "R", "S", "T", "U", "V", "W", "X", "Y", "Z">>

\* str.upper() on one character, ASCII or DotlessI: a lower-case letter becomes
\* its upper-case letter, the dotless i becomes I, any other ASCII character is
\* left as it is.
Upper(ch) ==
  IF \E k \in 1..Len(LowerCase) : LowerCase[k] = ch
  THEN UpperCase[CHOOSE k \in 1..Len(LowerCase) : LowerCase[k] = ch]
  ELSE IF ch = DotlessI
  THEN "I"
  ELSE ch

\* PauliString.from_str: a label string (a sequence of characters), read from
\* its last character (qubit 0) to its first.
PS_from_str(s) ==
  IF \E i \in 1..Len(s) : Upper(s[i]) \notin {"I", "X", "Y", "Z"}
  THEN Raise("ValueError")
  ELSE LET r == Reversed(s)
       IN Return(PauliString([i \in 1..Len(s) |-> Upper(r[i]) \in {"Y", "Z"}],
                             [i \in 1..Len(s) |-> Upper(r[i]) \in {"X", "Y"}]))

\* PauliString.to_zx_bits: concatenate(z_bits, x_bits)
PS_to_zx_bits(p) == p.z_bits \o p.x_bits

\* PauliString.to_xz_bits: concatenate(x_bits, z_bits)
PS_to_xz_bits(p) == p.x_bits \o p.z_bits

\* PauliString.from_zx_bits reading the first half as x_bits (the xz layout).
PS_from_zx_bits_halves_swapped(zx) ==
  PauliString(SubSeq(zx, Len(zx) \div 2 + 1, Len(zx)), SubSeq(zx, 1, Len(zx) \div 2))

\* PauliString.from_zx_bits on an array of even length 2n.
PS_from_zx_bits(zx) ==
  PauliString(SubSeq(zx, 1, Len(zx) \div 2), SubSeq(zx, Len(zx) \div 2 + 1, Len(zx)))

\* PauliString.mul_pauli_string with the crossing term read as z1.x2 instead of z2.x1.
PS_mul_pauli_string_crossing_swapped(a, b) ==
  IF PS_len(a) # PS_len(b)
  THEN Raise("ValueError")
  ELSE LET n == PS_len(a)
           new_z_bits == [i \in 1..n |-> a.z_bits[i] # b.z_bits[i]]
           new_x_bits == [i \in 1..n |-> a.x_bits[i] # b.x_bits[i]]
           w == (2 * NpSum([i \in 1..n |-> a.z_bits[i] /\ b.x_bits[i]])
                 + NpSum([i \in 1..n |-> a.z_bits[i] /\ a.x_bits[i]])
                 + NpSum([i \in 1..n |-> b.z_bits[i] /\ b.x_bits[i]])
                 - NpSum([i \in 1..n |-> new_z_bits[i] /\ new_x_bits[i]])) % 4
       IN Return([ps |-> PauliString(new_z_bits, new_x_bits), phase |-> PhaseOf(w)])

\* PauliString.mul_pauli_string with the factor 2 of the crossing term left out.
PS_mul_pauli_string_no_factor_2(a, b) ==
  IF PS_len(a) # PS_len(b)
  THEN Raise("ValueError")
  ELSE LET n == PS_len(a)
           new_z_bits == [i \in 1..n |-> a.z_bits[i] # b.z_bits[i]]
           new_x_bits == [i \in 1..n |-> a.x_bits[i] # b.x_bits[i]]
           w == (NpSum([i \in 1..n |-> b.z_bits[i] /\ a.x_bits[i]])
                 + NpSum([i \in 1..n |-> a.z_bits[i] /\ a.x_bits[i]])
                 + NpSum([i \in 1..n |-> b.z_bits[i] /\ b.x_bits[i]])
                 - NpSum([i \in 1..n |-> new_z_bits[i] /\ new_x_bits[i]])) % 4
       IN Return([ps |-> PauliString(new_z_bits, new_x_bits), phase |-> PhaseOf(w)])

\* PauliString.mul_pauli_string: (product string, phase), or ValueError.
PS_mul_pauli_string(a, b) ==
  IF PS_len(a) # PS_len(b)
  THEN Raise("ValueError")
  ELSE LET n == PS_len(a)
           new_z_bits == [i \in 1..n |-> a.z_bits[i] # b.z_bits[i]]
           new_x_bits == [i \in 1..n |-> a.x_bits[i] # b.x_bits[i]]
           w == (2 * NpSum([i \in 1..n |-> b.z_bits[i] /\ a.x_bits[i]])
                 + NpSum([i \in 1..n |-> a.z_bits[i] /\ a.x_bits[i]])
                 + NpSum([i \in 1..n |-> b.z_bits[i] /\ b.x_bits[i]])
                 - NpSum([i \in 1..n |-> new_z_bits[i] /\ new_x_bits[i]])) % 4
       IN Return([ps |-> PauliString(new_z_bits, new_x_bits), phase |-> PhaseOf(w)])

\* PauliString.ids: True where the operator is I.
PS_ids(p) == [i \in 1..PS_len(p) |-> (p.x_bits[i] \/ p.z_bits[i]) = FALSE]

\* ------------------------------------------- LinearCombinaisonPauliString

\* The constructor without its check of the two lengths.
LCPS_init_no_length_check(coefs, pauli_strings) ==
  IF pauli_strings = <<>>
  THEN Raise("IndexError")
  ELSE IF \E i \in 1..Len(pauli_strings) : PS_len(pauli_strings[i]) # PS_len(pauli_strings[1])
  THEN Raise("ValueError")
  ELSE Return([coefs |-> coefs,
               pauli_strings |-> pauli_strings,
               n_terms |-> Len(pauli_strings),
               n_qubits |-> PS_len(pauli_strings[1])])

\* LinearCombinaisonPauliString.__init__: the new object, or the exception.
\* An empty pauli_strings array fails at pauli_strings[0].
LCPS_init(coefs, pauli_strings) ==
  IF Len(coefs) # Len(pauli_strings)
  THEN Raise("ValueError")
  ELSE IF pauli_strings = <<>>
  THEN Raise("IndexError")
  ELSE IF \E i \in 1..Len(pauli_strings) : PS_len(pauli_strings[i]) # PS_len(pauli_strings[1])
  THEN Raise("ValueError")
  ELSE Return([coefs |-> coefs,
               pauli_strings |-> pauli_strings,
               n_terms |-> Len(pauli_strings),
               n_qubits |-> PS_len(pauli_strings[1])])

\* LinearCombinaisonPauliString.__len__
LCPS_len(L) == Len(L.pauli_strings)

\* PauliString.mul_coef: the one-term LCPS coef * p.
PS_mul_coef(p, coef) == LCPS_init(<<coef>>, <<p>>)

RECURSIVE TakeWhere(_, _)
\* array[mask] for a boolean mask of the array's length
TakeWhere(array, mask) ==
  IF array = <<>> THEN <<>>
  ELSE IF Head(mask) THEN <<Head(array)>> \o TakeWhere(Tail(array), Tail(mask))
  ELSE TakeWhere(Tail(array), Tail(mask))

Min(a, b) == IF a <= b THEN a ELSE b

\* array[key] as numpy indexes a 1-d array: key is a slice start:stop with
\* 0 <= start, stop, an int (made the list [key]), or a boolean mask.
NpIndex(array, key) ==
  CASE key.kind = "slice" ->
         Return(SubSeq(array, Min(key.start, Len(array)) + 1, Min(key.stop, Len(array))))
    [] key.kind = "int" ->
         IF key.i >= Len(array) \/ key.i < -Len(array)
         THEN Raise("IndexError")
         ELSE Return(<<array[(key.i % Len(array)) + 1]>>)
    [] key.kind = "mask" ->
         IF Len(key.mask) # Len(array)
         THEN Raise("IndexError")
         ELSE Return(TakeWhere(array, key.mask))

\* LinearCombinaisonPauliString.__getitem__
LCPS_getitem(L, key) ==
  LET new_coefs == NpIndex(L.coefs, key)
      new_pauli_strings == NpIndex(L.pauli_strings, key)
  IN IF new_coefs.exc # "None" THEN new_coefs
     ELSE LCPS_init(new_coefs.val, new_pauli_strings.val)

\* LinearCombinaisonPauliString.add_pauli_string_linear_combinaison
LCPS_add_pauli_string_linear_combinaison(L, M) ==
  IF L.n_qubits # M.n_qubits
  THEN Raise("ValueError")
  ELSE LCPS_init(L.coefs \o M.coefs, L.pauli_strings \o M.pauli_strings)

RECURSIVE MulLoop(_, _, _, _, _)
\* The double loop of mul_linear_combinaison_pauli_string from (i, j) on, 0-based:
\* arrays.coefs and arrays.pauli_strings are the arrays written so far.
MulLoop(L, M, i, j, arrays) ==
  IF i >= L.n_terms THEN arrays
  ELSE IF j >= M.n_terms THEN MulLoop(L, M, i + 1, 0, arrays)
  ELSE LET prod == PS_mul_pauli_string(L.pauli_strings[i + 1], M.pauli_strings[j + 1]).val
           at == i * M.n_terms + j + 1
       IN MulLoop(L, M, i, j + 1,
                  [coefs |-> [arrays.coefs EXCEPT
                                ![at] = CMul(CMul(L.coefs[i + 1], M.coefs[j + 1]), prod.phase)],
                   pauli_strings |-> [arrays.pauli_strings EXCEPT ![at] = prod.ps]])

\* mul_linear_combinaison_pauli_string with the result index transposed
\* (j * len(self) + i).
LCPS_mul_transposed(L, M) ==
  IF L.n_qubits # M.n_qubits
  THEN Raise("ValueError")
  ELSE LET n == L.n_terms
           m == M.n_terms
           at(k) == [i |-> ((k - 1) % n) + 1, j |-> ((k - 1) \div n) + 1]
           prod(k) == PS_mul_pauli_string(L.pauli_strings[at(k).i], M.pauli_strings[at(k).j]).val
       IN LCPS_init([k \in 1..(n * m) |->
                       CMul(CMul(L.coefs[at(k).i], M.coefs[at(k).j]), prod(k).phase)],
                    [k \in 1..(n * m) |-> prod(k).ps])

\* LinearCombinaisonPauliString.mul_linear_combinaison_pauli_string
LCPS_mul_linear_combinaison_pauli_string(L, M) ==
  IF L.n_qubits # M.n_qubits
  THEN Raise("ValueError")
  ELSE LET zeros == [coefs |-> [k \in 1..(LCPS_len(L) * LCPS_len(M)) |-> <<0, 0>>],
                     pauli_strings |-> [k \in 1..(LCPS_len(L) * LCPS_len(M)) |-> 0]]
           arrays == MulLoop(L, M, 0, 0, zeros)
       IN LCPS_init(arrays.coefs, arrays.pauli_strings)

\* self.coefs * other by numpy's broadcasting: other is a scalar, or a sequence
\* (an ndarray, or a list, which numpy converts) of some length.
NpBroadcastMul(coefs, factor) ==
  IF factor.kind = "scalar"
  THEN Return([k \in 1..Len(coefs) |-> CMul(coefs[k], factor.vals[1])])
  ELSE IF Len(factor.vals) = Len(coefs)
  THEN Return([k \in 1..Len(coefs) |-> CMul(coefs[k], factor.vals[k])])
  ELSE IF Len(factor.vals) = 1
  THEN Return([k \in 1..Len(coefs) |-> CMul(coefs[k], factor.vals[1])])
  ELSE IF Len(coefs) = 1
  THEN Return([k \in 1..Len(factor.vals) |-> CMul(coefs[1], factor.vals[k])])
  ELSE Raise("ValueError")

\* LinearCombinaisonPauliString.mul_coef: only an ndarray has its length checked.
LCPS_mul_coef(L, factor) ==
  IF factor.kind = "ndarray" /\ Len(factor.vals) # LCPS_len(L)
  THEN Raise("ValueError")
  ELSE LET new_coefs == NpBroadcastMul(L.coefs, factor)
       IN IF new_coefs.exc # "None" THEN new_coefs
          ELSE LCPS_init(new_coefs.val, L.pauli_strings)

\* LinearCombinaisonPauliString.to_zx_bits: row i is the zx_bits of term i.
LCPS_to_zx_bits(L) == [i \in 1..LCPS_len(L) |-> PS_to_zx_bits(L.pauli_strings[i])]

\* LinearCombinaisonPauliString.to_xz_bits
LCPS_to_xz_bits(L) == [i \in 1..LCPS_len(L) |-> PS_to_xz_bits(L.pauli_strings[i])]

\* LinearCombinaisonPauliString.ids
LCPS_ids(L) == [i \in 1..LCPS_len(L) |-> PS_ids(L.pauli_strings[i])]

\* Lexicographic order of two equally long boolean rows, False < True.
RowLess(r, s) ==
  \E i \in 1..Len(r) : /\ ~r[i] /\ s[i]
                       /\ \A j \in 1..(i - 1) : r[j] = s[j]

RECURSIVE SortedRows(_)
\* The rows of a set in ascending lexicographic order.
SortedRows(S) ==
  IF S = {} THEN <<>>
  ELSE LET least == CHOOSE r \in S : \A t \in S : t = r \/ RowLess(r, t)
       IN <<least>> \o SortedRows(S \ {least})

RECURSIVE FirstSeenRows(_)
\* The distinct rows in the order of their first occurrence.
FirstSeenRows(rows) ==
  IF rows = <<>> THEN <<>>
  ELSE LET front == FirstSeenRows(SubSeq(rows, 1, Len(rows) - 1))
       IN IF \E i \in 1..Len(front) : front[i] = rows[Len(rows)]
          THEN front
          ELSE Append(front, rows[Len(rows)])

\* np.unique(rows, axis=0) without its sort: the distinct rows as first seen.
NpUniqueRows_first_seen(rows) == FirstSeenRows(rows)

\* np.unique(rows, axis=0): the distinct rows, sorted.
NpUniqueRows(rows) == SortedRows({rows[i] : i \in 1..Len(rows)})

\* combine() keeping the coefficient of the first term of each pattern only.
LCPS_combine_first_coef(L) ==
  LET old_pauli_strings == LCPS_to_zx_bits(L)
      new_pauli_strings_zx == NpUniqueRows(old_pauli_strings)
  IN LCPS_init([u \in 1..Len(new_pauli_strings_zx) |->
                  L.coefs[CHOOSE i \in 1..Len(old_pauli_strings) :
                            /\ old_pauli_strings[i] = new_pauli_strings_zx[u]
                            /\ \A j \in 1..(i - 1) :
                                 old_pauli_strings[j] # new_pauli_strings_zx[u]]],
               [u \in 1..Len(new_pauli_strings_zx) |->
                  PS_from_zx_bits(new_pauli_strings_zx[u])])

\* LinearCombinaisonPauliString.combine
LCPS_combine(L) ==
  LET old_pauli_strings == LCPS_to_zx_bits(L)
      new_pauli_strings_zx == NpUniqueRows(old_pauli_strings)
      new_pauli_strings == [u \in 1..Len(new_pauli_strings_zx) |->
                              PS_from_zx_bits(new_pauli_strings_zx[u])]
      new_coefs == [u \in 1..Len(new_pauli_strings_zx) |->
                      CSum(TakeWhere(L.coefs,
                                     [i \in 1..Len(old_pauli_strings) |->
                                        old_pauli_strings[i] = new_pauli_strings_zx[u]]))]
  IN LCPS_init(new_coefs, new_pauli_strings)

\* abs(c) >= threshold
AbsAtLeast(c, threshold) == threshold <= 0 \/ CNorm2(c) >= threshold * threshold

\* LinearCombinaisonPauliString.apply_threshold
LCPS_apply_threshold(L, threshold) ==
  LCPS_getitem(L, [kind |-> "mask",
                   mask |-> [k \in 1..Len(L.coefs) |-> AbsAtLeast(L.coefs[k], threshold)]])

\* LinearCombinaisonPauliString.divide_in_bitwise_commuting_cliques
LCPS_divide_in_bitwise_commuting_cliques(L) == Raise("NotImplementedError")

\* The sort key of a zx_bits row: ''.join((1*np.flip(bitstring)).astype(str)),
\* here the flipped row; '0' < '1' makes string order the rows' RowLess.
SortKey(bitstring) == Reversed(bitstring)

\* The index arrays np.argsort may return for the keys: every permutation that
\* puts the keys in ascending order (the default sort kind is not stable).
NpArgsort(keys) ==
  {order \in [1..Len(keys) -> 1..Len(keys)] :
     /\ \A a, b \in 1..Len(keys) : a # b => order[a] # order[b]
     /\ \A a \in 1..(Len(keys) - 1) : ~RowLess(keys[order[a + 1]], keys[order[a]])}

\* LinearCombinaisonPauliString.sort, for one of the argsort results.
LCPS_sort(L, order) ==
  LCPS_init([k \in 1..Len(order) |-> L.coefs[order[k]]],
            [k \in 1..Len(order) |-> L.pauli_strings[order[k]]])

\* The orders sort() may compute.
LCPS_sort_orders(L) ==
  NpArgsort([i \in 1..LCPS_len(L) |-> SortKey(LCPS_to_zx_bits(L)[i])])

\* --------------------------------------------- SpecPS: PauliString products

\* Three PauliStrings; self and arg have the qubit count of other or not.
InitPS ==
  /\ \E n \in 1..NQubits :
       /\ other \in PauliStrings(n)
       /\ arg \in PauliStrings(n)
  /\ \E m \in 1..NQubits : self \in PauliStrings(m)
  /\ op = "none"
  /\ ret = NoCall
  /\ heap = Nil
  /\ calls = 0

\* self * other
MulPauliString ==
  /\ op = "none"
  /\ op' = "mul_pauli_string"
  /\ ret' = PS_mul_pauli_string(self, other)
  /\ UNCHANGED <<self, other, arg, heap, calls>>

\* (self * other) * arg: the returned string times arg, the phases multiplied.
MulLeft ==
  /\ op = "mul_pauli_string"
  /\ ret.exc = "None"
  /\ op' = "mul_left"
  /\ LET r == PS_mul_pauli_string(ret.val.ps, arg)
     IN ret' = IF r.exc = "None"
               THEN Return([ps |-> r.val.ps, phase |-> CMul(ret.val.phase, r.val.phase)])
               ELSE r
  /\ UNCHANGED <<self, other, arg, heap, calls>>

\* other * self, after self * other
MulReversed ==
  /\ op = "mul_pauli_string"
  /\ op' = "mul_reversed"
  /\ ret' = PS_mul_pauli_string(other, self)
  /\ UNCHANGED <<self, other, arg, heap, calls>>

NextPS == MulPauliString \/ MulLeft \/ MulReversed

SpecPS == InitPS /\ [][NextPS]_vars

\* ------------------------------------------------ SpecLC: one LCPS, one call

\* The coefficients of the generated LCPS.
CoefValues == {<<1, 0>>, <<-1, 0>>, <<0, 2>>}

\* self is an LCPS of 1..MaxTerms terms on 1..LcQubits qubits with these
\* coefficients, built by the constructor.
GeneratedLCPS(L) ==
  \E n \in 1..LcQubits, t \in 1..MaxTerms :
    \E coefs \in [1..t -> CoefValues], pauli_strings \in [1..t -> PauliStrings(n)] :
      L = LCPS_init(coefs, pauli_strings).val

\* The LCPS with real coefficients coefs[i] and the PauliStrings of the labels.
LCPS_from_labels(coefs, labels) ==
  LCPS_init([i \in 1..Len(coefs) |-> <<coefs[i], 0>>],
            [i \in 1..Len(labels) |-> PS_from_str(labels[i]).val]).val

\* Two-qubit labels of the examples.
ExampleLabels == {<<"I", "I">>, <<"X", "Z">>, <<"Z", "X">>, <<"I", "Y">>}

\* 1*a + 2*b + 3*c over the two-qubit example labels, among them
\* 1*XZ + 2*XZ + 3*II, and the one-qubit LCPS of I, X, Y, Z in every order.
ExampleLCPS ==
  {LCPS_from_labels(<<1, 2, 3>>, labels) : labels \in [1..3 -> ExampleLabels]}
  \cup {LCPS_from_labels(<<1, 2, 3, 4>>, [i \in 1..4 |-> <<labels[i]>>]) :
          labels \in {l \in [1..4 -> {"I", "X", "Y", "Z"}] :
                        \A a, b \in 1..4 : a # b => l[a] # l[b]}}

\* The thresholds passed to apply_threshold.
Thresholds == {1, 2, 3}

\* The k-th element of a factor sequence.
FactorAt(k) == IF k % 2 = 1 THEN <<2, 0>> ELSE <<0, 1>>

\* The factors passed to mul_coef on an LCPS of n terms: a scalar, or an ndarray
\* or a list of 0..n+1 elements.
Factors(n) ==
  {[kind |-> "scalar", vals |-> <<v>>] : v \in {<<2, 0>>, <<0, 1>>}}
  \cup {[kind |-> k, vals |-> [i \in 1..m |-> FactorAt(i)]] :
          k \in {"ndarray", "list"}, m \in 0..(n + 1)}

InitLC ==
  /\ \/ GeneratedLCPS(self)
     \/ self \in ExampleLCPS
  /\ other = Nil
  /\ arg = Nil
  /\ op = "none"
  /\ ret = NoCall
  /\ heap = Nil
  /\ calls = 0

\* self.combine()
Combine ==
  /\ op = "none"
  /\ op' = "combine"
  /\ ret' = LCPS_combine(self)
  /\ UNCHANGED <<self, other, arg, heap, calls>>

\* self.combine().combine(): combine() called on the returned LCPS, kept in arg
CombineAgain ==
  /\ op = "combine"
  /\ ret.exc = "None"
  /\ op' = "combine_combine"
  /\ arg' = ret.val
  /\ ret' = LCPS_combine(ret.val)
  /\ UNCHANGED <<self, other, heap, calls>>

\* self.apply_threshold(threshold)
ApplyThreshold ==
  /\ op = "none"
  /\ \E threshold \in Thresholds :
       /\ arg' = threshold
       /\ ret' = LCPS_apply_threshold(self, threshold)
  /\ op' = "apply_threshold"
  /\ UNCHANGED <<self, other, heap, calls>>

\* self.sort()
Sort ==
  /\ op = "none"
  /\ \E order \in LCPS_sort_orders(self) : ret' = LCPS_sort(self, order)
  /\ op' = "sort"
  /\ UNCHANGED <<self, other, arg, heap, calls>>

\* self.mul_coef(factor), also self * factor
MulCoef ==
  /\ op = "none"
  /\ \E factor \in Factors(LCPS_len(self)) :
       /\ arg' = factor
       /\ ret' = LCPS_mul_coef(self, factor)
  /\ op' = "mul_coef"
  /\ UNCHANGED <<self, other, heap, calls>>

\* self.divide_in_bitwise_commuting_cliques()
DivideInBitwiseCommutingCliques ==
  /\ op = "none"
  /\ op' = "divide_in_bitwise_commuting_cliques"
  /\ ret' = LCPS_divide_in_bitwise_commuting_cliques(self)
  /\ UNCHANGED <<self, other, arg, heap, calls>>

NextLC ==
  \/ Combine
  \/ CombineAgain
  \/ ApplyThreshold
  \/ Sort
  \/ MulCoef
  \/ DivideInBitwiseCommutingCliques

SpecLC == InitLC /\ [][NextLC]_vars

\* ------------------------------------------------ SpecBin: two LCPS, one call

\* The coefficients of the operands of the binary calls.
BinCoefValues == {<<1, 0>>, <<0, 2>>}

\* L is a one-qubit LCPS of 1..MaxTerms terms, or a two-qubit example.
BinOperand(L) ==
  \/ \E t \in 1..MaxTerms :
       \E coefs \in [1..t -> BinCoefValues], pauli_strings \in [1..t -> PauliStrings(1)] :
         L = LCPS_init(coefs, pauli_strings).val
  \/ L \in {LCPS_from_labels(<<1, 2>>, labels) : labels \in [1..2 -> ExampleLabels]}

InitBin ==
  /\ BinOperand(self)
  /\ BinOperand(other)
  /\ arg = Nil
  /\ op = "none"
  /\ ret = NoCall
  /\ heap = Nil
  /\ calls = 0

\* self + other
Add ==
  /\ op = "none"
  /\ op' = "add"
  /\ ret' = LCPS_add_pauli_string_linear_combinaison(self, other)
  /\ UNCHANGED <<self, other, arg, heap, calls>>

\* self * other
MulLCPS ==
  /\ op = "none"
  /\ op' = "mul"
  /\ ret' = LCPS_mul_linear_combinaison_pauli_string(self, other)
  /\ UNCHANGED <<self, other, arg, heap, calls>>

NextBin == Add \/ MulLCPS

SpecBin == InitBin /\ [][NextBin]_vars

\* ------------------------------------- SpecCodec: label strings and zx_bits

\* The characters of the strings given to from_str: the four labels in either
\* case, a letter in either case and a sign that are no labels, and the
\* dotless i, whose upper() is the label I.
LabelChars == {"I", "X", "Y", "Z", "i", "x", "y", "z", "A", "a", "-", DotlessI}

\* A label string of 1..NQubits characters, not yet parsed.
InitCodec ==
  /\ \E n \in 1..NQubits : arg \in [1..n -> LabelChars]
  /\ self = Nil
  /\ other = Nil
  /\ op = "none"
  /\ ret = NoCall
  /\ heap = Nil
  /\ calls = 0

\* self = PauliString.from_str(arg)
FromStr ==
  /\ op = "none"
  /\ op' = "from_str"
  /\ ret' = PS_from_str(arg)
  /\ self' = IF ret'.exc = "None" THEN ret'.val ELSE self
  /\ UNCHANGED <<other, arg, heap, calls>>

\* str(self)
Str ==
  /\ op = "from_str"
  /\ ret.exc = "None"
  /\ op' = "str"
  /\ ret' = Return(PS_str(self))
  /\ UNCHANGED <<self, other, arg, heap, calls>>

\* PauliString.from_str(str(self)): the returned string, kept in other, parsed
FromStrOfStr ==
  /\ op = "str"
  /\ op' = "str_from_str"
  /\ other' = ret.val
  /\ ret' = PS_from_str(ret.val)
  /\ UNCHANGED <<self, arg, heap, calls>>

\* self.to_zx_bits()
ToZxBits ==
  /\ op = "from_str"
  /\ ret.exc = "None"
  /\ op' = "to_zx_bits"
  /\ ret' = Return(PS_to_zx_bits(self))
  /\ UNCHANGED <<self, other, arg, heap, calls>>

\* PauliString.from_zx_bits(self.to_zx_bits()): the returned array, kept in other
FromZxBits ==
  /\ op = "to_zx_bits"
  /\ op' = "from_zx_bits"
  /\ other' = ret.val
  /\ ret' = Return(PS_from_zx_bits(ret.val))
  /\ UNCHANGED <<self, arg, heap, calls>>

NextCodec == FromStr \/ Str \/ FromStrOfStr \/ ToZxBits \/ FromZxBits

SpecCodec == InitCodec /\ [][NextCodec]_vars

\* ------------------------------------- SpecHeap: the methods on the heap
\*
\* heap[a] is the object or array at address a: a PauliString object (its bit
\* arrays as values: no method writes to them), an ndarray (of coefficients, or
\* of addresses of PauliString objects) or an LCPS object holding the addresses
\* of its two arrays.  A method returns [heap |-> the heap after the call,
\* ret |-> the address returned or the exception raised].

PSCell(p) == [kind |-> "PauliString", data |-> p]

ArrayCell(values) == [kind |-> "ndarray", data |-> values]

LCPSCell(coefs_at, pauli_strings_at, n_terms, n_qubits) ==
  [kind |-> "LCPS",
   data |-> [coefs |-> coefs_at, pauli_strings |-> pauli_strings_at,
             n_terms |-> n_terms, n_qubits |-> n_qubits]]

\* The PauliStrings at the addresses refs.
H_strings(h, refs) == [i \in 1..Len(refs) |-> h[refs[i]].data]

\* self.coefs of the LCPS object at address at
H_coefs(h, at) == h[h[at].data.coefs].data

\* self.pauli_strings of the LCPS object at address at: addresses of PauliStrings
H_refs(h, at) == h[h[at].data.pauli_strings].data

\* The LCPS at address at, read out of the heap.
H_value(h, at) ==
  [coefs |-> H_coefs(h, at),
   pauli_strings |-> H_strings(h, H_refs(h, at)),
   n_terms |-> h[at].data.n_terms,
   n_qubits |-> h[at].data.n_qubits]

\* LinearCombinaisonPauliString.__init__ on the heap: after the checks,
\* np.array(coefs) and np.array(pauli_strings) are new arrays (copies, the
\* PauliString objects shared), held by a new object.
H_init(h, coefs, refs) ==
  LET checked == LCPS_init(coefs, H_strings(h, refs))
  IN IF checked.exc # "None"
     THEN [heap |-> h, ret |-> checked]
     ELSE [heap |-> h \o <<ArrayCell(coefs),
                            ArrayCell(refs),
                            LCPSCell(Len(h) + 1, Len(h) + 2,
                                     checked.val.n_terms, checked.val.n_qubits)>>,
           ret |-> Return(Len(h) + 3)]

\* New PauliString objects (PauliString.__init__) for the given strings.
H_new_strings(h, pauli_strings) ==
  [heap |-> h \o [i \in 1..Len(pauli_strings) |-> PSCell(pauli_strings[i])],
   refs |-> [i \in 1..Len(pauli_strings) |-> Len(h) + i]]

\* An LCPS built from new PauliString objects by the constructor.
H_build(h, L) ==
  LET strings == H_new_strings(h, L.pauli_strings)
  IN H_init(strings.heap, L.coefs, strings.refs)

\* LinearCombinaisonPauliString.__getitem__ on the heap
H_getitem(h, s, key) ==
  LET new_coefs == NpIndex(H_coefs(h, s), key)
      new_pauli_strings == NpIndex(H_refs(h, s), key)
  IN IF new_coefs.exc # "None" THEN [heap |-> h, ret |-> new_coefs]
     ELSE H_init(h, new_coefs.val, new_pauli_strings.val)

\* LinearCombinaisonPauliString.add_pauli_string_linear_combinaison on the heap
H_add(h, s, o) ==
  IF h[s].data.n_qubits # h[o].data.n_qubits
  THEN [heap |-> h, ret |-> Raise("ValueError")]
  ELSE H_init(h, H_coefs(h, s) \o H_coefs(h, o), H_refs(h, s) \o H_refs(h, o))

\* LinearCombinaisonPauliString.mul_linear_combinaison_pauli_string on the heap:
\* every product is a new PauliString object.
H_mul(h, s, o) ==
  LET product == LCPS_mul_linear_combinaison_pauli_string(H_value(h, s), H_value(h, o))
  IN IF product.exc # "None" THEN [heap |-> h, ret |-> product]
     ELSE LET strings == H_new_strings(h, product.val.pauli_strings)
          IN H_init(strings.heap, product.val.coefs, strings.refs)

\* mul_coef multiplying in place (self.coefs *= other) and returning self.
H_mul_coef_in_place(h, s, factor) ==
  LET product == LCPS_mul_coef(H_value(h, s), factor)
  IN IF product.exc # "None" THEN [heap |-> h, ret |-> product]
     ELSE [heap |-> [h EXCEPT ![h[s].data.coefs] = ArrayCell(product.val.coefs)],
           ret |-> Return(s)]

\* LinearCombinaisonPauliString.mul_coef on the heap: self.coefs * other is a new
\* array, self.pauli_strings is handed to the constructor.
H_mul_coef(h, s, factor) ==
  IF factor.kind = "ndarray" /\ Len(factor.vals) # Len(H_refs(h, s))
  THEN [heap |-> h, ret |-> Raise("ValueError")]
  ELSE LET new_coefs == NpBroadcastMul(H_coefs(h, s), factor)
       IN IF new_coefs.exc # "None" THEN [heap |-> h, ret |-> new_coefs]
          ELSE H_init(h, new_coefs.val, H_refs(h, s))

\* LinearCombinaisonPauliString.combine on the heap: from_zx_bits makes a new
\* PauliString object for every distinct pattern.
H_combine(h, s) ==
  LET combined == LCPS_combine(H_value(h, s))
  IN IF combined.exc # "None" THEN [heap |-> h, ret |-> combined]
     ELSE LET strings == H_new_strings(h, combined.val.pauli_strings)
          IN H_init(strings.heap, combined.val.coefs, strings.refs)

\* LinearCombinaisonPauliString.apply_threshold on the heap
H_apply_threshold(h, s, threshold) ==
  H_getitem(h, s, [kind |-> "mask",
                   mask |-> [k \in 1..Len(H_coefs(h, s)) |->
                               AbsAtLeast(H_coefs(h, s)[k], threshold)]])

\* LinearCombinaisonPauliString.sort on the heap, for one of the argsort results
H_sort(h, s, order) ==
  H_init(h, [k \in 1..Len(order) |-> H_coefs(h, s)[order[k]]],
            [k \in 1..Len(order) |-> H_refs(h, s)[order[k]]])

\* The second operands of SpecHeap: one-qubit and two-qubit LCPS.
HeapOthers ==
  {LCPS_from_labels(<<1, 2>>, <<<<"X">>, <<"Z">>>>),
   LCPS_from_labels(<<3>>, <<<<"Y">>>>),
   LCPS_from_labels(<<1, 2>>, <<<<"X", "Z">>, <<"I", "I">>>>)}

\* The keys given to __getitem__ on an LCPS of n terms: slices (the last one
\* empty), and ints (the last one out of range).
Keys(n) ==
  {[kind |-> "slice", start |-> 0, stop |-> 1],
   [kind |-> "slice", start |-> 1, stop |-> n + 1],
   [kind |-> "slice", start |-> n, stop |-> n],
   [kind |-> "int", i |-> 0],
   [kind |-> "int", i |-> -1],
   [kind |-> "int", i |-> n]}

\* The heap holds the LCPS a, built by the constructor, and a second operand:
\* another LCPS, or a itself (as in a + a).
InitHeapWith(a) ==
  LET first == H_build(<<>>, a)
  IN /\ self = first.ret.val
     /\ \/ \E b \in HeapOthers :
             LET second == H_build(first.heap, b)
             IN /\ heap = second.heap
                /\ other = second.ret.val
        \/ /\ heap = first.heap
           /\ other = self
     /\ arg = Nil
     /\ op = "none"
     /\ ret = NoCall
     /\ calls = 0

InitHeap ==
  \/ \E t \in 1..MaxTerms :
       \E coefs \in [1..t -> BinCoefValues], pauli_strings \in [1..t -> PauliStrings(1)] :
         InitHeapWith(LCPS_init(coefs, pauli_strings).val)
  \/ \E labels \in [1..2 -> ExampleLabels] : InitHeapWith(LCPS_from_labels(<<1, 2>>, labels))

\* The call made: its name, its argument, and what the method did.
HeapCall(name, argument, done) ==
  /\ op = "none"
  /\ op' = name
  /\ arg' = argument
  /\ heap' = done.heap
  /\ ret' = done.ret
  /\ UNCHANGED <<self, other, calls>>

\* self[key]
HGetItem ==
  \E key \in Keys(Len(H_refs(heap, self))) :
    HeapCall("getitem", key, H_getitem(heap, self, key))

\* self + other
HAdd == HeapCall("add", Nil, H_add(heap, self, other))

\* self * other
HMul == HeapCall("mul", Nil, H_mul(heap, self, other))

\* self * factor
HMulCoef ==
  \E factor \in Factors(Len(H_refs(heap, self))) :
    HeapCall("mul_coef", factor, H_mul_coef(heap, self, factor))

\* self.combine()
HCombine == HeapCall("combine", Nil, H_combine(heap, self))

\* self.apply_threshold(threshold)
HApplyThreshold ==
  \E threshold \in Thresholds :
    HeapCall("apply_threshold", threshold, H_apply_threshold(heap, self, threshold))

\* self.sort()
HSort ==
  \E order \in LCPS_sort_orders(H_value(heap, self)) :
    HeapCall("sort", order, H_sort(heap, self, order))

NextHeap ==
  \/ HGetItem
  \/ HAdd
  \/ HMul
  \/ HMulCoef
  \/ HCombine
  \/ HApplyThreshold
  \/ HSort

SpecHeap == InitHeap /\ [][NextHeap]_vars

\* ------------------------------------------- SpecChain: chains of calls
\*
\* self is an LCPS built by the constructor; every call is made on self, and
\* the LCPS a call returns is the self of the next call.  After a call that
\* raised, self is still the receiver.

ChainCoefValues == {<<1, 0>>, <<0, 2>>}

\* The second operands of add and mul: a one-qubit and a two-qubit LCPS.
ChainOthers ==
  {LCPS_from_labels(<<1, 1>>, <<<<"X">>, <<"Z">>>>),
   LCPS_from_labels(<<1>>, <<<<"X", "Z">>>>)}

\* The keys given to __getitem__ on an LCPS of n terms.
ChainKeys(n) ==
  {[kind |-> "slice", start |-> 0, stop |-> 1],
   [kind |-> "slice", start |-> 1, stop |-> n + 1],
   [kind |-> "int", i |-> -1]}

\* The factors given to mul_coef on an LCPS of n terms: a scalar, an ndarray of
\* n and of n+1 elements, a list of 2 elements.
ChainFactors(n) ==
  {[kind |-> "scalar", vals |-> <<<<0, 1>>>>],
   [kind |-> "ndarray", vals |-> [i \in 1..n |-> <<0, 1>>]],
   [kind |-> "ndarray", vals |-> [i \in 1..(n + 1) |-> <<0, 1>>]],
   [kind |-> "list", vals |-> <<<<1, 0>>, <<0, 1>>>>]}

ChainThresholds == {2}

InitChain ==
  \E n \in 1..LcQubits :
    \E c \in ChainCoefValues, p \in PauliStrings(n) :
      /\ self = LCPS_init(<<c>>, <<p>>).val
      /\ other = Nil
      /\ arg = Nil
      /\ op = "none"
      /\ ret = NoCall
      /\ heap = Nil
      /\ calls = 0

\* One call of a chain: its name, its argument, and what the method did.
ChainCall(name, argument, done) ==
  /\ calls < MaxCalls
  /\ calls' = calls + 1
  /\ op' = name
  /\ arg' = argument
  /\ ret' = done
  /\ self' = IF done.exc = "None" THEN done.val ELSE self
  /\ UNCHANGED heap

\* self = self[key]
ChainGetItem ==
  \E key \in ChainKeys(LCPS_len(self)) :
    /\ ChainCall("getitem", key, LCPS_getitem(self, key))
    /\ UNCHANGED other

\* self = self + o
ChainAdd ==
  \E o \in ChainOthers :
    LET done == LCPS_add_pauli_string_linear_combinaison(self, o)
    IN /\ done.exc = "None" => LCPS_len(done.val) <= MaxChainTerms
       /\ ChainCall("add", Nil, done)
       /\ other' = o

\* self = self * o
ChainMul ==
  \E o \in ChainOthers :
    LET done == LCPS_mul_linear_combinaison_pauli_string(self, o)
    IN /\ done.exc = "None" => LCPS_len(done.val) <= MaxChainTerms
       /\ ChainCall("mul", Nil, done)
       /\ other' = o

\* self = self * factor
ChainMulCoef ==
  \E factor \in ChainFactors(LCPS_len(self)) :
    /\ ChainCall("mul_coef", factor, LCPS_mul_coef(self, factor))
    /\ UNCHANGED other

\* self = self.combine()
ChainCombine ==
  /\ ChainCall("combine", Nil, LCPS_combine(self))
  /\ UNCHANGED other

\* self = self.apply_threshold(threshold)
ChainApplyThreshold ==
  \E threshold \in ChainThresholds :
    /\ ChainCall("apply_threshold", threshold, LCPS_apply_threshold(self, threshold))
    /\ UNCHANGED other

\* self = self.sort()
ChainSort ==
  \E order \in LCPS_sort_orders(self) :
    /\ ChainCall("sort", order, LCPS_sort(self, order))
    /\ UNCHANGED other

NextChain ==
  \/ ChainGetItem
  \/ ChainAdd
  \/ ChainMul
  \/ ChainMulCoef
  \/ ChainCombine
  \/ ChainApplyThreshold
  \/ ChainSort

SpecChain == InitChain /\ [][NextChain]_vars

\* ---------------------------------------------------------- claims, SpecPS

\* The single-qubit multiplication table: the phase of la * lb.
TablePhase(la, lb) ==
  CASE la = "I" \/ lb = "I" \/ la = lb -> <<1, 0>>
    [] <<la, lb>> \in {<<"X", "Y">>, <<"Y", "Z">>, <<"Z", "X">>} -> <<0, 1>>
    [] OTHER -> <<0, -1>>

\* The single-qubit multiplication table: the operator of la * lb.
TableLabel(la, lb) ==
  CASE la = "I" -> lb
    [] lb = "I" -> la
    [] la = lb -> "I"
    [] OTHER -> CHOOSE l \in {"X", "Y", "Z"} : l # la /\ l # lb

RECURSIVE TablePhaseProduct(_, _)
\* The product of the table phases over the qubits of two label strings.
TablePhaseProduct(sa, sb) ==
  IF sa = <<>> THEN <<1, 0>>
  ELSE CMul(TablePhase(Head(sa), Head(sb)), TablePhaseProduct(Tail(sa), Tail(sb)))

\* C1: for a and b of equal qubit count, multiply(a, b) returns the string with
\* bits (a.z xor b.z, a.x xor b.x), which is qubit by qubit the operator of the
\* single-qubit table, and a phase among 1, -i, -1, i equal to the product over
\* the qubits of the table's phases.
C1_MultiplyMatchesTable ==
  (op = "mul_pauli_string" /\ PS_len(self) = PS_len(other)) =>
    /\ ret.exc = "None"
    /\ ret.val.ps.z_bits = [i \in 1..PS_len(self) |-> self.z_bits[i] # other.z_bits[i]]
    /\ ret.val.ps.x_bits = [i \in 1..PS_len(self) |-> self.x_bits[i] # other.x_bits[i]]
    /\ PS_str(ret.val.ps) =
         [i \in 1..PS_len(self) |-> TableLabel(PS_str(self)[i], PS_str(other)[i])]
    /\ ret.val.phase \in {PhaseOf(w) : w \in 0..3}
    /\ ret.val.phase = TablePhaseProduct(PS_str(self), PS_str(other))

\* A two-qubit product XY * YZ = (iZ)(iX) = -ZX has been computed.
C1_Witness ==
  /\ op = "mul_pauli_string"
  /\ PS_str(self) = <<"X", "Y">>
  /\ PS_str(other) = <<"Y", "Z">>
  /\ ret.exc = "None"
  /\ ret.val.phase = <<-1, 0>>
  /\ PS_str(ret.val.ps) = <<"Z", "X">>

\* C8: multiplication is associative with its phase: (a*b)*c, computed by two
\* calls, is the string and the accumulated phase of a*(b*c).
C8_MultiplyAssociative ==
  (op = "mul_left" /\ ret.exc = "None") =>
    LET inner == PS_mul_pauli_string(other, arg)
        outer == PS_mul_pauli_string(self, inner.val.ps)
    IN /\ inner.exc = "None"
       /\ outer.exc = "None"
       /\ ret.val.ps = outer.val.ps
       /\ ret.val.phase = CMul(inner.val.phase, outer.val.phase)

\* (X*Y)*Z has been computed: iZ*Z = i I.
C8_Witness ==
  /\ op = "mul_left"
  /\ PS_str(self) = <<"X">>
  /\ PS_str(other) = <<"Y">>
  /\ PS_str(arg) = <<"Z">>
  /\ ret.exc = "None"
  /\ ret.val.phase = <<0, 1>>
  /\ PS_str(ret.val.ps) = <<"I">>

\* --------------------------------------------------------- claims, SpecBin

\* C2: for A and B on the same qubit count, multiply(A, B) has len(A)*len(B)
\* terms, and the term at index i*len(B)+j (0-based) is the product string of
\* A's term i with B's term j, with coefficient coef_A[i] * coef_B[j] * phase.
C2_MultiplyTermByTerm ==
  (op = "mul" /\ self.n_qubits = other.n_qubits) =>
    /\ ret.exc = "None"
    /\ LCPS_len(ret.val) = LCPS_len(self) * LCPS_len(other)
    /\ Len(ret.val.coefs) = LCPS_len(self) * LCPS_len(other)
    /\ \A i \in 0..(LCPS_len(self) - 1), j \in 0..(LCPS_len(other) - 1) :
         LET product == PS_mul_pauli_string(self.pauli_strings[i + 1],
                                            other.pauli_strings[j + 1]).val
             k == i * LCPS_len(other) + j + 1
         IN /\ ret.val.pauli_strings[k] = product.ps
            /\ ret.val.coefs[k] =
                 CMul(CMul(self.coefs[i + 1], other.coefs[j + 1]), product.phase)

\* (1*X + 2i*Y) * (1*Y + 1*Z) has been computed: i Z, -i Y, 2i I, -2 X.
C2_Witness ==
  /\ op = "mul"
  /\ self.coefs = <<<<1, 0>>, <<0, 2>>>>
  /\ <<PS_str(self.pauli_strings[1]), PS_str(self.pauli_strings[2])>> = <<<<"X">>, <<"Y">>>>
  /\ other.coefs = <<<<1, 0>>, <<1, 0>>>>
  /\ <<PS_str(other.pauli_strings[1]), PS_str(other.pauli_strings[2])>> = <<<<"Y">>, <<"Z">>>>
  /\ ret.exc = "None"
  /\ ret.val.coefs = <<<<0, 1>>, <<0, -1>>, <<0, 2>>, <<-2, 0>>>>
  /\ [k \in 1..4 |-> PS_str(ret.val.pauli_strings[k])] = <<<<"Z">>, <<"Y">>, <<"I">>, <<"X">>>>

\* ---------------------------------------------------------- claims, SpecLC

\* The indices of the terms of L whose zx-bit pattern is p.
TermsWithPattern(L, p) == {i \in 1..LCPS_len(L) : PS_to_zx_bits(L.pauli_strings[i]) = p}

RECURSIVE CoefTotal(_, _)
\* The sum of the coefficients of the terms of L with indices in I.
CoefTotal(L, I) ==
  IF I = {} THEN <<0, 0>>
  ELSE LET i == CHOOSE x \in I : TRUE
       IN CAdd(L.coefs[i], CoefTotal(L, I \ {i}))

\* C3: combine(L) has exactly one term for each zx-bit pattern occurring in L
\* and no other term, and each output coefficient is the sum of the coefficients
\* of the terms of L with that pattern.
C3_CombineSumsPerPattern ==
  op = "combine" =>
    /\ ret.exc = "None"
    /\ Len(ret.val.coefs) = LCPS_len(ret.val)
    /\ \A p \in [1..(2 * self.n_qubits) -> BOOLEAN] :
         /\ Cardinality(TermsWithPattern(ret.val, p)) =
              (IF TermsWithPattern(self, p) = {} THEN 0 ELSE 1)
         /\ CoefTotal(ret.val, TermsWithPattern(ret.val, p)) =
              CoefTotal(self, TermsWithPattern(self, p))

\* combine() has merged two of three terms: 1*XZ + 2*XZ + 3*ZX.
C3_Witness ==
  /\ op = "combine"
  /\ self = LCPS_from_labels(<<1, 2, 3>>, <<<<"X", "Z">>, <<"X", "Z">>, <<"Z", "X">>>>)
  /\ ret.exc = "None"
  /\ LCPS_len(ret.val) = 2
  /\ <<3, 0>> \in {ret.val.coefs[k] : k \in 1..2}

\* The claimed result of the clique partition: groups is a sequence of LCPS and
\* some assignment of the terms of L to the groups makes each group exactly the
\* terms assigned to it, in order, with their coefficients.
IsPartitionOf(groups, L) ==
  \E g \in [1..LCPS_len(L) -> 1..Len(groups)] :
    \A c \in 1..Len(groups) :
      /\ groups[c].coefs = TakeWhere(L.coefs, [i \in 1..LCPS_len(L) |-> g[i] = c])
      /\ groups[c].pauli_strings =
           TakeWhere(L.pauli_strings, [i \in 1..LCPS_len(L) |-> g[i] = c])

\* p and q commute bitwise: on each qubit one of them is I or they are equal.
CommuteBitwise(p, q) ==
  \A i \in 1..PS_len(p) :
    \/ PS_ids(p)[i]
    \/ PS_ids(q)[i]
    \/ (p.z_bits[i] = q.z_bits[i] /\ p.x_bits[i] = q.x_bits[i])

\* C4: divideIntoBitwiseCommutingCliques(L) returns groups that partition the
\* terms of L, each group's strings commuting bitwise pairwise; the call never
\* ends in NotImplementedError.
C4_CliquesPartition ==
  op = "divide_in_bitwise_commuting_cliques" =>
    /\ ret.exc # "NotImplementedError"
    /\ ret.exc = "None"
    /\ IsPartitionOf(ret.val, self)
    /\ \A c \in 1..Len(ret.val) :
         \A a, b \in 1..LCPS_len(ret.val[c]) :
           CommuteBitwise(ret.val[c].pauli_strings[a], ret.val[c].pauli_strings[b])

\* The claimed precedence of the labels: I < X < Y < Z.
LabelRank(l) ==
  CASE l = "I" -> 0
    [] l = "X" -> 1
    [] l = "Y" -> 2
    [] l = "Z" -> 3

\* p comes strictly before q in the claimed order: qubit 0 is the primary key.
ClaimedBefore(p, q) ==
  \E i \in 1..PS_len(p) :
    /\ LabelRank(LabelOf(p.z_bits[i], p.x_bits[i])) < LabelRank(LabelOf(q.z_bits[i], q.x_bits[i]))
    /\ \A j \in 1..(i - 1) : p.z_bits[j] = q.z_bits[j] /\ p.x_bits[j] = q.x_bits[j]

\* C5: sort() orders the terms with I < X < Y < Z and qubit 0 as the primary key;
\* a one-qubit LCPS of I, X, Y, Z in any order comes out as I, X, Y, Z.
C5_SortOrder ==
  op = "sort" =>
    /\ ret.exc = "None"
    /\ \A a \in 1..(LCPS_len(ret.val) - 1) :
         ~ClaimedBefore(ret.val.pauli_strings[a + 1], ret.val.pauli_strings[a])
    /\ ({PS_str(self.pauli_strings[i]) : i \in 1..LCPS_len(self)}
          = {<<"I">>, <<"X">>, <<"Y">>, <<"Z">>} /\ LCPS_len(self) = 4)
       => [k \in 1..4 |-> PS_str(ret.val.pauli_strings[k])]
            = <<<<"I">>, <<"X">>, <<"Y">>, <<"Z">>>>

\* C6: applyThreshold(L, t) returns the LCPS of exactly the terms of L with
\* |coef| >= t, in order and unchanged, also when no term or every term of L is
\* below the threshold.
C6_ThresholdSubsequence ==
  op = "apply_threshold" =>
    LET keep == [k \in 1..LCPS_len(self) |-> AbsAtLeast(self.coefs[k], arg)]
    IN /\ ret.exc = "None"
       /\ ret.val.coefs = TakeWhere(self.coefs, keep)
       /\ ret.val.pauli_strings = TakeWhere(self.pauli_strings, keep)

\* C7: combine() is idempotent: combine(combine(L)) has the terms of combine(L),
\* the same strings in the same order with the same coefficients.
C7_CombineIdempotent ==
  op = "combine_combine" =>
    /\ ret.exc = "None"
    /\ ret.val.coefs = arg.coefs
    /\ ret.val.pauli_strings = arg.pauli_strings

\* combine() has been applied twice to 1*XZ + 2*XZ + 3*ZX.
C7_Witness ==
  /\ op = "combine_combine"
  /\ self = LCPS_from_labels(<<1, 2, 3>>, <<<<"X", "Z">>, <<"X", "Z">>, <<"Z", "X">>>>)
  /\ ret.exc = "None"
  /\ LCPS_len(arg) = 2
  /\ LCPS_len(ret.val) = 2

\* The terms of L as (coefficient, label string) pairs.
TermsOf(L) == [i \in 1..LCPS_len(L) |-> <<L.coefs[i], PS_str(L.pauli_strings[i])>>]

\* The example of the combine test: 1*XZ + 2*XZ + 3*II.
CombineExample == LCPS_from_labels(<<1, 2, 3>>, <<<<"X", "Z">>, <<"X", "Z">>, <<"I", "I">>>>)

\* C9 as claimed: combine() on [(1, XZ), (2, XZ), (3, II)] yields
\* [(3, XZ), (3, II)] in that order.
C9_CombineExampleAsClaimed ==
  (op = "combine" /\ self = CombineExample) =>
    /\ ret.exc = "None"
    /\ TermsOf(ret.val) = <<<<<<3, 0>>, <<"X", "Z">>>>, <<<<3, 0>>, <<"I", "I">>>>>>

\* C9 amended: combine() on [(1, XZ), (2, XZ), (3, II)] yields
\* [(3, II), (3, XZ)] in that order, the ascending order of the zx-bit patterns.
C9_CombineExample ==
  (op = "combine" /\ self = CombineExample) =>
    /\ ret.exc = "None"
    /\ TermsOf(ret.val) = <<<<<<3, 0>>, <<"I", "I">>>>, <<<<3, 0>>, <<"X", "Z">>>>>>

\* combine() has been called on the example.
C9_Witness ==
  /\ op = "combine"
  /\ self = CombineExample
  /\ TermsOf(self) = <<<<<<1, 0>>, <<"X", "Z">>>>, <<<<2, 0>>, <<"X", "Z">>>>,
                       <<<<3, 0>>, <<"I", "I">>>>>>
  /\ ret.exc = "None"
  /\ LCPS_len(ret.val) = 2

\* C10: scalarMultiply(factor) multiplies every coefficient by a scalar factor,
\* coefficient k by factor[k] for a sequence of exactly len(L) scalars, and fails
\* with a length-mismatch error for a sequence of any other length, whatever its
\* container type; the PauliStrings and their order are unchanged.
C10_ScalarMultiply ==
  op = "mul_coef" =>
    IF arg.kind = "scalar"
    THEN /\ ret.exc = "None"
         /\ ret.val.coefs = [k \in 1..LCPS_len(self) |-> CMul(self.coefs[k], arg.vals[1])]
         /\ ret.val.pauli_strings = self.pauli_strings
    ELSE IF Len(arg.vals) = LCPS_len(self)
    THEN /\ ret.exc = "None"
         /\ ret.val.coefs = [k \in 1..LCPS_len(self) |-> CMul(self.coefs[k], arg.vals[k])]
         /\ ret.val.pauli_strings = self.pauli_strings
    ELSE ret.exc = "ValueError"

\* -z for a complex z
CNeg(z) == <<-z[1], -z[2]>>

\* C14: swapping the operands of multiply changes at most the sign of the phase:
\* a*b and b*a are the same string, their phases are equal when the number of
\* qubits with a.z and b.x plus the number with b.z and a.x is even and
\* negatives of each other when it is odd, and a*a is the identity with phase 1.
C14_MultiplySwapSign ==
  (op = "mul_reversed" /\ PS_len(self) = PS_len(other)) =>
    LET n == PS_len(self)
        forward == PS_mul_pauli_string(self, other)
        crossings == Cardinality({i \in 1..n : self.z_bits[i] /\ other.x_bits[i]})
                     + Cardinality({i \in 1..n : other.z_bits[i] /\ self.x_bits[i]})
    IN /\ ret.exc = "None"
       /\ forward.exc = "None"
       /\ ret.val.ps = forward.val.ps
       /\ ret.val.phase = IF crossings % 2 = 0 THEN forward.val.phase
                          ELSE CNeg(forward.val.phase)
       /\ self = other =>
            /\ ret.val.phase = <<1, 0>>
            /\ \A i \in 1..n : ~ret.val.ps.z_bits[i] /\ ~ret.val.ps.x_bits[i]

\* ZY * XY = i YI has been computed after XY * ZY = -i YI (one crossing qubit).
C14_Witness ==
  /\ op = "mul_reversed"
  /\ PS_str(self) = <<"X", "Y">>
  /\ PS_str(other) = <<"Z", "Y">>
  /\ ret.exc = "None"
  /\ ret.val.phase = <<0, 1>>
  /\ PS_mul_pauli_string(self, other).val.phase = <<0, -1>>
  /\ PS_str(ret.val.ps) = <<"Y", "I">>

\* ------------------------------------------------------- claims, SpecCodec

\* The characters of a label string: I, X, Y, Z in either case.
LabelAlphabet == {"I", "X", "Y", "Z", "i", "x", "y", "z"}

\* The z and x bit of a label, in either case.
BitsOfLabel(ch) ==
  CASE ch \in {"I", "i"} -> <<FALSE, FALSE>>
    [] ch \in {"X", "x"} -> <<FALSE, TRUE>>
    [] ch \in {"Y", "y"} -> <<TRUE, TRUE>>
    [] ch \in {"Z", "z"} -> <<TRUE, FALSE>>

\* C12: the encodings round-trip: a label string s over I, X, Y, Z parses with
\* its leftmost character on qubit n-1 and its rightmost on qubit 0,
\* fromLabelString(toLabelString(fromLabelString(s))) has the z/x bits of
\* fromLabelString(s), and fromZXBits(toZXBits(p)) has the z/x bits of p.
C12_EncodingRoundTrips ==
  /\ (op = "from_str" /\ \A i \in 1..Len(arg) : arg[i] \in LabelAlphabet) =>
       /\ ret.exc = "None"
       /\ PS_len(ret.val) = Len(arg)
       /\ Len(ret.val.x_bits) = Len(arg)
       /\ \A q \in 0..(Len(arg) - 1) :
            <<ret.val.z_bits[q + 1], ret.val.x_bits[q + 1]>> = BitsOfLabel(arg[Len(arg) - q])
  /\ op = "str_from_str" =>
       /\ ret.exc = "None"
       /\ ret.val.z_bits = self.z_bits
       /\ ret.val.x_bits = self.x_bits
  /\ op = "from_zx_bits" =>
       /\ ret.exc = "None"
       /\ ret.val.z_bits = self.z_bits
       /\ ret.val.x_bits = self.x_bits

\* "xZ" has been parsed (X on qubit 1, Z on qubit 0), printed as "XZ" and
\* parsed again.
C12_Witness ==
  /\ op = "str_from_str"
  /\ arg = <<"x", "Z">>
  /\ self = PauliString(<<TRUE, FALSE>>, <<FALSE, TRUE>>)
  /\ other = <<"X", "Z">>
  /\ ret.exc = "None"
  /\ ret.val = self

\* -------------------------------------------------------- claims, SpecHeap

\* C11: no derived operation mutates its operands: after slice, add, multiply,
\* scalarMultiply, combine, applyThreshold or sort, whether it returned or
\* raised, the coefficients, the PauliStrings and their z/x bits of both
\* operands are what they were before the call, and the LCPS returned is an
\* object that did not exist before the call.
C11_OperandsNotMutated ==
  [][/\ self' = self
     /\ other' = other
     /\ H_value(heap', self) = H_value(heap, self)
     /\ H_value(heap', other) = H_value(heap, other)
     /\ H_refs(heap', self) = H_refs(heap, self)
     /\ H_refs(heap', other) = H_refs(heap, other)
     /\ ret'.exc = "None" =>
          /\ ret'.val \notin {self, other}
          /\ ret'.val > Len(heap)]_vars

\* 1*X + 2i*Z has been multiplied by the list [2, i]: the LCPS returned is a new
\* object with new arrays, 2*X - 2*Z, holding the PauliString objects of self,
\* whose coefficients are still 1 and 2i.
C11_Witness ==
  /\ op = "mul_coef"
  /\ arg = [kind |-> "list", vals |-> <<<<2, 0>>, <<0, 1>>>>]
  /\ ret.exc = "None"
  /\ ret.val # self
  /\ H_coefs(heap, self) = <<<<1, 0>>, <<0, 2>>>>
  /\ H_coefs(heap, ret.val) = <<<<2, 0>>, <<-2, 0>>>>
  /\ [i \in 1..2 |-> PS_str(H_value(heap, self).pauli_strings[i])] = <<<<"X">>, <<"Z">>>>
  /\ H_refs(heap, ret.val) = H_refs(heap, self)
  /\ heap[ret.val].data.coefs # heap[self].data.coefs
  /\ heap[ret.val].data.pauli_strings # heap[self].data.pauli_strings

\* ------------------------------------------------------- claims, SpecChain

\* As many coefficients as PauliStrings, all of them of n_qubits qubits.
WellFormed(L) ==
  /\ Len(L.coefs) = Len(L.pauli_strings)
  /\ L.n_terms = Len(L.pauli_strings)
  /\ \A i \in 1..Len(L.pauli_strings) :
       /\ PS_len(L.pauli_strings[i]) = L.n_qubits
       /\ Len(L.pauli_strings[i].x_bits) = L.n_qubits

\* C13: every LCPS reached from a constructed one by successful getitem, add,
\* mul, mul_coef, combine, apply_threshold and sort calls has as many
\* coefficients as PauliStrings, all its PauliStrings of the qubit count of the
\* operands of the call that returned it; add and mul of operands of different
\* qubit counts raise.
C13_ChainKeepsInvariant ==
  [][/\ WellFormed(self)
     /\ WellFormed(self')
     /\ ret'.exc = "None" =>
          /\ self' = ret'.val
          /\ self'.n_qubits = self.n_qubits
          /\ op' \in {"add", "mul"} => self'.n_qubits = other'.n_qubits
     /\ (op' \in {"add", "mul"} /\ self.n_qubits # other'.n_qubits) =>
          ret'.exc \in {"ValueError"} /\ self' = self]_vars

\* After two calls that returned a three-term LCPS of one qubit, the add of a
\* two-qubit LCPS has raised.
C13_Witness ==
  /\ calls = 3
  /\ op = "add"
  /\ ret.exc = "ValueError"
  /\ other.n_qubits = 2
  /\ self.n_qubits = 1
  /\ self.n_terms = 3
  /\ WellFormed(self)

====
